---- MODULE Spec2Model ----
(***************************************************************************)
(* NASA MCP server: the tool-dispatch gateway of src/nasa_mcp/server.py    *)
(* (handle_list_tools, handle_call_tool, handle_mcp) and the backend       *)
(* adapters it calls (APOD, Mars rover, NeoWs, EPIC, GIBS, image           *)
(* analysis).  Spec is the server answering one HTTP request after         *)
(* another, StdioSpec the process started with --stdio, ConcurrentSpec     *)
(* handle_mcp running for several requests at once.                        *)
(*                                                                         *)
(* Python values are tagged records [t, i, s]: t is the Python type, i the *)
(* integer value (bool is an int subclass: True is 1), s the string value. *)
(* A Python str built by an f-string or by += is the sequence of its       *)
(* pieces, in order; the literal prefix "Error: " is always a piece of its *)
(* own, so "begins with" is a test on the first piece.                     *)
(***************************************************************************)
EXTENDS Integers, Sequences, FiniteSets, TLC

\* ------------------------------------------------------------------ bounds
\* requests served in one run of the server
MaxServed == 2
\* frames one run of the server over one request yields
MaxFrames == 2
\* keys present in one arguments mapping
MaxArgs == 3
\* lines a client writes to the standard input of the server
MaxLines == 3

VARIABLES
    pc,         \* "idle", "received" (a request is decoded by starlette), "responded"
    request,    \* the HTTP request being handled
    response,   \* the response handle_mcp returned for it
    ran,        \* server.run was entered for it
    raised,     \* an exception reached the except clause of handle_mcp
    call,       \* the handle_call_tool call made for it
    served,     \* requests answered so far
    failures,   \* those of them answered with a status of 400 or more
    upstream,   \* what the third-party service did with the request of the call
    responses,  \* the frames server.run yielded for it, in order
    registry,   \* the tool descriptors registered at startup
    \* the process started with --stdio
    written,        \* the requests the client wrote to its standard input, in order
    nread,          \* how many of them the server has read
    stdin_closed,   \* the client closed the input channel
    stdout,         \* the lines written to its standard output, in order
    stdio_pc,       \* "start", "serving", "handling" (a request is in flight), "exited"
    stdio_request,  \* the request in flight
    \* the requests uvicorn runs handle_mcp for at the same time
    tasks           \* per task: where it is in handle_mcp, and its locals

httpVars ==
    <<pc, request, response, ran, raised, call, served, failures, upstream, responses,
      registry>>
stdioVars == <<written, nread, stdin_closed, stdout, stdio_pc, stdio_request>>
vars == <<httpVars, stdioVars, tasks>>

\* ------------------------------------------------------------ Python values
None == [t |-> "none", i |-> 0, s |-> ""]
Absent == [t |-> "absent", i |-> 0, s |-> ""]
PyInt(n) == [t |-> "int", i |-> n, s |-> ""]
PyStr(x) == [t |-> "str", i |-> 0, s |-> x]
PyBool(b) == [t |-> "bool", i |-> IF b THEN 1 ELSE 0, s |-> ""]

\* bool(v), as `if v:` and `not v` evaluate it
Truthy(v) ==
    CASE v.t = "none" -> FALSE
      [] v.t = "int" -> v.i # 0
      [] v.t = "bool" -> v.i # 0
      [] v.t = "str" -> v.s # ""

\* the operand types for which `v < n`, `v <= n`, `v > n` with an int n are defined
IsNumber(v) == v.t \in {"int", "bool"}

\* str(v) and f"{v}"
str(v) ==
    CASE v.t = "none" -> "None"
      [] v.t = "int" -> ToString(v.i)
      [] v.t = "bool" -> (IF v.i = 1 THEN "True" ELSE "False")
      [] v.t = "str" -> v.s

\* arguments.get(key) and arguments.get(key, default) on the decoded mapping
Get(arguments, key) ==
    IF arguments[key].t = "absent" THEN None ELSE arguments[key]

GetDefault(arguments, key, default) ==
    IF arguments[key].t = "absent" THEN default ELSE arguments[key]

\* The strings the requests draw dates from, and the proleptic day number
\* datetime.datetime.strptime(s, "%Y-%m-%d") gives each of those it accepts.
DayNumber ==
    [x \in {"2023-12-31", "2024-01-01", "2024-01-05", "2024-01-08", "2024-01-09"} |->
        CASE x = "2023-12-31" -> 738885
          [] x = "2024-01-01" -> 738886
          [] x = "2024-01-05" -> 738890
          [] x = "2024-01-08" -> 738893
          [] x = "2024-01-09" -> 738894]

\* datetime.datetime.strptime(v, "%Y-%m-%d"): a datetime, ValueError for a str
\* that is no such date, TypeError for an argument that is no str
strptime(v) ==
    IF v.t # "str" THEN [ok |-> FALSE, exc |-> "TypeError", day |-> 0]
    ELSE IF v.s \in DOMAIN DayNumber THEN [ok |-> TRUE, exc |-> "", day |-> DayNumber[v.s]]
    ELSE [ok |-> FALSE, exc |-> "ValueError", day |-> 0]

\* ------------------------------------------------------------ content blocks
\* mcp.types.TextContent / ImageContent; a Python list standing where a block
\* is expected is a block of type "list" holding its items
TextContent(text) == [type |-> "text", text |-> text, mimeType |-> "", items |-> <<>>]
ImageContent(mimeType) == [type |-> "image", text |-> <<>>, mimeType |-> mimeType, items |-> <<>>]
ListValue(items) == [type |-> "list", text |-> <<>>, mimeType |-> "", items |-> items]

\* ---------------------------------------------------------- adapter outcomes
\* What a call of an adapter function does: it returns a str (text), or a list
\* of blocks, or raises; requests are the upstream requests it issued, in order;
\* failure says that the value returned reports a failure of the call.
Returns(text, failure, requests) ==
    [out |-> "return", text |-> text, blocks |-> <<>>, exc |-> <<>>, failure |-> failure,
     requests |-> requests]

ReturnsList(blocks, failure, requests) ==
    [out |-> "return", text |-> <<>>, blocks |-> blocks, exc |-> <<>>, failure |-> failure,
     requests |-> requests]

\* exc is str(e) of the exception raised, as pieces
Raises(exc, requests) ==
    [out |-> "raise", text |-> <<>>, blocks |-> <<>>, exc |-> exc, failure |-> TRUE,
     requests |-> requests]

\* str(e) of the TypeError of an ordering comparison of v with an int
CompareError(op, v) ==
    <<"'", op, "' not supported between instances of '",
      (IF v.t = "none" THEN "NoneType" ELSE v.t), "' and 'int'">>

\* str(e) of the TypeError strptime raises for an argument that is no str
StrptimeTypeError(v) == <<"strptime() argument 1 must be str, not ", v.t>>

\* str(e) of the AttributeError of a str method called on a value that is no str
AttributeError(v, method) ==
    <<"'", v.t, "' object has no attribute '", method, "'">>

Error(message) == <<"Error: ">> \o message

\* ------------------------------------------------------- upstream responses
\* What the third-party service does with one request: the request times out,
\* fails below HTTP, or is answered with a status and a payload.
StatusCodes == {200, 400, 403, 404, 500}
Payloads == {"ok", "empty", "error_message", "not_json", "bad_shape"}

\* the list an EPIC answer holds: n image names, in the order of the service
EpicList(n) == [i \in 1..n |-> "epic_" \o ToString(n + 1 - i)]

\* The document of an "ok" answer: to EPIC the list `data`, to an image URL
\* an image of a mode under a content-type header.
Service(net, status, payload, data, content_type, mode) ==
    [net |-> net, status |-> status, payload |-> payload, data |-> data,
     content_type |-> content_type, mode |-> mode]

\* an outcome with the plain document: one EPIC image, a JPEG in mode RGB
Plain(net, status, payload) == Service(net, status, payload, EpicList(1), "image/jpeg", "RGB")

Upstream ==
    {Plain("timeout", 0, "ok"), Plain("error", 0, "ok")}
    \cup {Plain("response", status, payload) : status \in StatusCodes, payload \in Payloads}
    \cup {Service("response", 200, "ok", EpicList(3), "image/png", "RGBA"),
          Service("response", 200, "ok", EpicList(12), "image/png", "RGB"),
          Service("response", 200, "ok", EpicList(2), "image/jpeg", "RGBA"),
          Service("response", 200, "ok", EpicList(1), "image/png", "P")}

\* no upstream request was issued
NoUpstream == Plain("none", 0, "ok")

\* response.raise_for_status() raises httpx.HTTPStatusError
IsErrorStatus(status) == status >= 400

\* one upstream request: the service asked and the query parameters, in order
UpstreamRequest(api, params) == [api |-> api, params |-> params]

\* the messages of the except clauses shared by the httpx adapters
TimedOut == Error(<<"Request timed out. Please try again.">>)
ConnectFailed == Error(<<"All connection attempts failed">>)
NotJson == Error(<<"Expecting value: line 1 column 1 (char 0)">>)
HttpStatus(status) == Error(<<"HTTP ", ToString(status)>>)

\* --------------------------------------------------------------- APOD_tool.py
\* lines 65-114: the request and the formatting of its answer
APODResponse(params, up) ==
    LET requests == <<UpstreamRequest("APOD", params)>> IN
    IF up.net = "timeout" THEN Returns(TimedOut, TRUE, requests)
    ELSE IF up.net = "error" THEN Returns(ConnectFailed, TRUE, requests)
    ELSE IF IsErrorStatus(up.status) THEN Returns(HttpStatus(up.status), TRUE, requests)
    ELSE CASE up.payload = "not_json" -> Returns(NotJson, TRUE, requests)
           [] up.payload = "empty" ->
                Returns(<<"No APOD images found for the specified parameters">>, FALSE, requests)
           [] up.payload = "ok" ->
                Returns(<<"NASA Astronomy Picture of the Day\n", "Date: ", "2024-01-01">>,
                        FALSE, requests)
           [] up.payload = "error_message" ->
                \* a dict without the APOD keys: every .get falls to its default
                Returns(<<"NASA Astronomy Picture of the Day\n", "Date: ", "Unknown">>,
                        FALSE, requests)
           [] up.payload = "bad_shape" ->
                Returns(Error(<<"'str' object has no attribute 'get'">>), TRUE, requests)

\* the range branch without its test of date
DateWithRange_ignored(date) == FALSE

\* line 26, `if date:` under `elif start_date or end_date:`
DateWithRange(date) == Truthy(date)

get_astronomy_picture_of_the_day_tool_defnition(date, start_date, end_date, count, up) ==
    IF count.t # "none" THEN
        IF Truthy(date) /\ (Truthy(start_date) \/ Truthy(end_date)) THEN
            Returns(Error(<<"count cannot be used with date, start_date, or end_date">>),
                    TRUE, <<>>)
        ELSE IF ~IsNumber(count) THEN Raises(CompareError("<=", count), <<>>)
        ELSE IF count.i <= 0 THEN
            Returns(Error(<<"count must be a positive integer">>), TRUE, <<>>)
        ELSE APODResponse(<< <<"count", str(count)>> >>, up)
    ELSE IF Truthy(start_date) \/ Truthy(end_date) THEN
        IF DateWithRange(date) THEN
            Returns(Error(<<"date cannot be used with start_date or end_date">>), TRUE, <<>>)
        ELSE
            LET s == strptime(start_date)
                e == strptime(end_date)
                p1 == IF Truthy(start_date) THEN << <<"start_date", str(start_date)>> >>
                      ELSE <<>>
                p2 == IF Truthy(end_date) THEN << <<"end_date", str(end_date)>> >> ELSE <<>>
            IN  IF Truthy(start_date) /\ ~s.ok THEN
                    IF s.exc = "ValueError" THEN
                        Returns(Error(<<"start_date must be in YYYY-MM-DD format">>), TRUE, <<>>)
                    ELSE Raises(StrptimeTypeError(start_date), <<>>)
                ELSE IF Truthy(end_date) /\ ~e.ok THEN
                    IF e.exc = "ValueError" THEN
                        Returns(Error(<<"end_date must be in YYYY-MM-DD format">>), TRUE, <<>>)
                    ELSE Raises(StrptimeTypeError(end_date), <<>>)
                ELSE APODResponse(p1 \o p2, up)
    ELSE IF Truthy(date) THEN
        LET d == strptime(date) IN
        IF ~d.ok THEN
            IF d.exc = "ValueError" THEN
                Returns(Error(<<"date must be in YYYY-MM-DD format">>), TRUE, <<>>)
            ELSE Raises(StrptimeTypeError(date), <<>>)
        ELSE APODResponse(<< <<"date", str(date)>> >>, up)
    ELSE APODResponse(<<>>, up)

\* ---------------------------------------------------------------- mars_img.py
valid_cameras ==
    {"FHAZ", "RHAZ", "MAST", "CHEMCAM", "MAHLI", "MARDI", "NAVCAM", "PANCAM", "MINITES"}

\* str.upper() on the strings the requests draw camera names from
upper(x) ==
    CASE x = "mast" -> "MAST"
      [] x = "xcam" -> "XCAM"
      [] OTHER -> x

\* lines 71-102: the request and the formatting of its answer
MarsResponse(params, up) ==
    LET requests == <<UpstreamRequest("MARS", params \o << <<"page", "1">> >>)>> IN
    IF up.net = "timeout" THEN Returns(TimedOut, TRUE, requests)
    ELSE IF up.net = "error" THEN Returns(ConnectFailed, TRUE, requests)
    ELSE IF IsErrorStatus(up.status) THEN Returns(HttpStatus(up.status), TRUE, requests)
    ELSE CASE up.payload = "not_json" -> Returns(NotJson, TRUE, requests)
           [] up.payload \in {"empty", "error_message"} ->
                \* no "photos" key, or an empty list under it
                Returns(<<"No images are found for the specified parameters">>, FALSE, requests)
           [] up.payload = "ok" ->
                Returns(<<"Mars Rover Image Found!\n", "Image URL: ", "img_src">>, FALSE, requests)
           [] up.payload = "bad_shape" -> Returns(Error(<<"'img_src'">>), TRUE, requests)

\* the filter keeping the date next to a sol
time_filter_both(earth_date, sol) ==
    (IF sol.t # "none" THEN << <<"sol", str(sol)>> >> ELSE << >>)
    \o (IF Truthy(earth_date) THEN << <<"earth_date", str(earth_date)>> >> ELSE << >>)

\* lines 33-46: the time filter of the query, from sol, else earth_date, else
\* the default sol
time_filter(earth_date, sol) ==
    IF sol.t # "none" THEN << <<"sol", str(sol)>> >>
    ELSE IF Truthy(earth_date) THEN << <<"earth_date", str(earth_date)>> >>
    ELSE << <<"sol", "1000">> >>

get_mars_image_definition(earth_date, sol, camera, up) ==
    LET d == strptime(earth_date)
        time == time_filter(earth_date, sol)
        cam == IF Truthy(camera) THEN << <<"camera", upper(camera.s)>> >> ELSE <<>>
    IN  IF sol.t # "none" /\ ~IsNumber(sol) THEN Raises(CompareError("<", sol), <<>>)
        ELSE IF sol.t # "none" /\ sol.i < 0 THEN
            Returns(Error(<<"sol must be a non-negative integer">>), TRUE, <<>>)
        ELSE IF sol.t = "none" /\ Truthy(earth_date) /\ ~d.ok THEN
            IF d.exc = "ValueError" THEN
                Returns(Error(<<"earth_date must be in YYYY-MM-DD format">>), TRUE, <<>>)
            ELSE Raises(StrptimeTypeError(earth_date), <<>>)
        ELSE IF Truthy(camera) /\ camera.t # "str" THEN
            Raises(AttributeError(camera, "upper"), <<>>)
        ELSE IF Truthy(camera) /\ upper(camera.s) \notin valid_cameras THEN
            Returns(Error(<<"Invalid camera '", camera.s, "'. Valid options: ",
                            "FHAZ, RHAZ, MAST, CHEMCAM, MAHLI, MARDI, NAVCAM, PANCAM, MINITES">>),
                    TRUE, <<>>)
        ELSE MarsResponse(time \o cam, up)

\* --------------------------------------------------------------- NeoWs_tool.py
\* lines 61-181: the request and the formatting of its answer. The payload is
\* parsed, and looked up for "error_message", before the status is considered.
NeoResponse(params, up) ==
    LET requests == <<UpstreamRequest("NEOWS", params)>> IN
    IF up.net = "timeout" THEN Returns(TimedOut, TRUE, requests)
    ELSE IF up.net = "error" THEN Returns(ConnectFailed, TRUE, requests)
    ELSE IF up.payload = "not_json" THEN Returns(NotJson, TRUE, requests)
    ELSE IF up.payload = "error_message" THEN
        Returns(<<"API Error: ", "error_message">>, TRUE, requests)
    ELSE IF IsErrorStatus(up.status) THEN
        IF up.status = 400 THEN
            Returns(Error(<<"Invalid date format or date range exceeds 7 days">>), TRUE, requests)
        ELSE IF up.status = 403 THEN Returns(Error(<<"Invalid API key">>), TRUE, requests)
        ELSE Returns(HttpStatus(up.status), TRUE, requests)
    ELSE CASE up.payload = "empty" ->
                Returns(<<"No Near Earth Objects found for the specified date range">>,
                        FALSE, requests)
           [] up.payload = "ok" ->
                Returns(<<"NASA Near Earth Objects (NEO) Feed\n", "Total asteroids found: ", "1">>,
                        FALSE, requests)
           [] up.payload = "bad_shape" ->
                Returns(Error(<<"'list' object has no attribute 'get'">>), TRUE, requests)

\* the range test never refusing
range_exceeds_never(start_day, end_day) == FALSE

\* line 43: (end_dt - start_dt).days > 7
range_exceeds(start_day, end_day) == end_day - start_day > 7

get_neo_feed_definition(start_date, end_date, limit_per_day, up) ==
    LET s == strptime(start_date)
        e == strptime(end_date)
        p1 == IF Truthy(start_date) THEN << <<"start_date", str(start_date)>> >> ELSE <<>>
        p2 == IF Truthy(end_date) THEN << <<"end_date", str(end_date)>> >> ELSE <<>>
    IN  IF ~IsNumber(limit_per_day) THEN Raises(CompareError("<=", limit_per_day), <<>>)
        ELSE IF limit_per_day.i <= 0 THEN
            Returns(Error(<<"limit_per_day must be a positive integer">>), TRUE, <<>>)
        ELSE IF Truthy(start_date) \/ Truthy(end_date) THEN
            IF Truthy(start_date) THEN
                IF ~s.ok THEN
                    IF s.exc = "ValueError" THEN
                        Returns(Error(<<"start_date must be in YYYY-MM-DD format">>), TRUE, <<>>)
                    ELSE Raises(StrptimeTypeError(start_date), <<>>)
                ELSE IF Truthy(end_date) THEN
                    IF ~e.ok THEN
                        IF e.exc = "ValueError" THEN
                            Returns(Error(<<"end_date must be in YYYY-MM-DD format">>), TRUE, <<>>)
                        ELSE Raises(StrptimeTypeError(end_date), <<>>)
                    ELSE IF range_exceeds(s.day, e.day) THEN
                        Returns(Error(<<"Date range cannot exceed 7 days">>), TRUE, <<>>)
                    ELSE IF e.day < s.day THEN
                        Returns(Error(<<"end_date must be after start_date">>), TRUE, <<>>)
                    ELSE NeoResponse(p1 \o p2, up)
                ELSE NeoResponse(p1, up)
            ELSE Returns(Error(<<"start_date must provided to use the end_date">>), TRUE, <<>>)
        ELSE NeoResponse(<<>>, up)

\* --------------------------------------------------------------- earth_img.py
\* str.lower() on the strings the requests draw type and projection names from
lower(x) ==
    CASE x = "Natural" -> "natural"
      [] x = "EPSG3857" -> "epsg3857"
      [] OTHER -> x

\* lines 48-128: the request and the formatting of its answer
\* image_type.title() on the valid types
title(x) ==
    CASE x = "natural" -> "Natural" [] x = "enhanced" -> "Enhanced"
      [] x = "aerosol" -> "Aerosol" [] x = "cloud" -> "Cloud"

\* lines 90-119: the lines of the images from the i-th one on
RECURSIVE ImageLines(_, _)
ImageLines(images_to_process, i) ==
    IF i > Len(images_to_process) THEN <<>>
    ELSE <<"Image ", ToString(i), ":\n", "  URL: ", images_to_process[i], "\n">>
         \o ImageLines(images_to_process, i + 1)

\* data[:limit]
Front(data, limit) == SubSeq(data, 1, IF limit < Len(data) THEN limit ELSE Len(data))

\* lines 82-119: the text for the list the service returned
EarthText(path, limit, data) ==
    <<"Earth Image", IF Len(Front(data, limit)) > 1 THEN "s" ELSE "", " Found!!!!!!\n",
      "Image Type: ", title(path[1][2]), "\n",
      "Images returned: ", ToString(Len(Front(data, limit))), " of ", ToString(Len(data)),
      " available\n\n">>
    \o ImageLines(Front(data, limit), 1)
    \o <<" ", "https://epic.gsfc.nasa.gov/api/", path[1][2], "/">>
    \o (IF Len(path) > 1 THEN <<"date/", path[2][2]>> ELSE <<>>)

EarthResponse(path, limit, up) ==
    LET requests == <<UpstreamRequest("EPIC", path)>> IN
    IF up.net = "timeout" THEN Returns(TimedOut, TRUE, requests)
    ELSE IF up.net = "error" THEN Returns(ConnectFailed, TRUE, requests)
    ELSE IF IsErrorStatus(up.status) THEN Returns(HttpStatus(up.status), TRUE, requests)
    ELSE CASE up.payload = "not_json" -> Returns(NotJson, TRUE, requests)
           [] up.payload = "empty" ->
                Returns(<<"No images found for the specified parameters">>, FALSE, requests)
           [] up.payload = "ok" ->
                Returns(EarthText(path, limit, up.data), FALSE, requests)
           [] up.payload = "error_message" ->
                \* a dict: data[:limit] raises
                Returns(Error(<<"unhashable type: 'slice'">>), TRUE, requests)
           [] up.payload = "bad_shape" -> Returns(Error(<<"'date'">>), TRUE, requests)

\* the limit passed on as given
cap_none(limit) == limit

\* lines 23-24: if limit > 10: limit = 10
cap(limit) == IF limit > 10 THEN 10 ELSE limit

get_earth_image_definition(earth_date, type, limit, up) ==
    LET d == strptime(earth_date)
        capped == cap(limit.i)
        kind == IF Truthy(type) THEN << <<"type", lower(type.s)>> >>
                ELSE << <<"type", "natural">> >>
        day == IF Truthy(earth_date) THEN << <<"date", str(earth_date)>> >> ELSE <<>>
    IN  IF ~IsNumber(limit) THEN Raises(CompareError("<", limit), <<>>)
        ELSE IF limit.i < 1 THEN Returns(Error(<<"limit must be at least 1">>), TRUE, <<>>)
        ELSE IF Truthy(type) /\ type.t # "str" THEN Raises(AttributeError(type, "lower"), <<>>)
        ELSE IF Truthy(type)
                /\ lower(type.s) \notin {"natural", "enhanced", "aerosol", "cloud"} THEN
            Returns(Error(<<"Invalid type '", type.s,
                            "'. Valid options: 'natural', 'enhanced','aerosol', 'cloud'">>),
                    TRUE, <<>>)
        ELSE IF Truthy(earth_date) /\ ~d.ok THEN
            IF d.exc = "ValueError" THEN
                Returns(Error(<<"earth_date must be in YYYY-MM-DD format">>), TRUE, <<>>)
            ELSE Raises(StrptimeTypeError(earth_date), <<>>)
        ELSE EarthResponse(kind \o day, capped, up)

\* ---------------------------------------------------------------- GIBS_tool.py
valid_formats == {"image/png", "image/jpeg"}
valid_projections == {"epsg4326", "epsg3857"}

\* bbox.split(",") on the strings the requests draw bounding boxes from
split(x) ==
    CASE x = "-180,-90,180,90" -> <<"-180", "-90", "180", "90">>
      [] x = "-10,30,40,50" -> <<"-10", "30", "40", "50">>
      [] x = "40,30,-10,50" -> <<"40", "30", "-10", "50">>
      [] x = "-190,0,0,10" -> <<"-190", "0", "0", "10">>
      [] x = "nan,30,40,50" -> <<"nan", "30", "40", "50">>
      [] x = "a,b,c,d" -> <<"a", "b", "c", "d">>
      [] x = "1,2,3" -> <<"1", "2", "3">>
      [] OTHER -> <<x>>

\* a Python float: a number, or the not-a-number float("nan") yields
Float(x) == [nan |-> FALSE, x |-> x]
NaN == [nan |-> TRUE, x |-> 0]

\* the comparisons of floats: every comparison with a nan is False
float_ge(a, b) == ~a.nan /\ ~b.nan /\ a.x >= b.x
float_lt(a, b) == ~a.nan /\ ~b.nan /\ a.x < b.x
float_gt(a, b) == ~a.nan /\ ~b.nan /\ a.x > b.x

\* float(part) on the parts of those strings; a part outside the table is one
\* float() raises ValueError for
FloatValue ==
    [x \in {"-190", "-180", "-90", "-10", "0", "1", "2", "3", "10", "30", "40", "50",
             "90", "180", "nan"} |->
        CASE x = "-190" -> Float(-190) [] x = "-180" -> Float(-180) [] x = "-90" -> Float(-90)
          [] x = "-10" -> Float(-10) [] x = "0" -> Float(0) [] x = "1" -> Float(1)
          [] x = "2" -> Float(2) [] x = "3" -> Float(3) [] x = "10" -> Float(10)
          [] x = "30" -> Float(30) [] x = "40" -> Float(40) [] x = "50" -> Float(50)
          [] x = "90" -> Float(90) [] x = "180" -> Float(180) [] x = "nan" -> NaN]

\* f"EPSG:{projection_lower[4:]}" on the two valid projections
crs(projection_lower) ==
    CASE projection_lower = "epsg4326" -> "EPSG:4326"
      [] projection_lower = "epsg3857" -> "EPSG:3857"

\* lines 101-178: the request and the formatting of its answer
GibsResponse(params, up) ==
    LET requests == <<UpstreamRequest("GIBS", params)>> IN
    IF up.net = "timeout" THEN Returns(TimedOut, TRUE, requests)
    ELSE IF up.net = "error" THEN Returns(ConnectFailed, TRUE, requests)
    ELSE IF IsErrorStatus(up.status) THEN
        IF up.status = 400 THEN
            Returns(Error(<<"Bad request. Please check your parameters (layer name, bbox, date, etc.)">>),
                    TRUE, requests)
        ELSE IF up.status = 404 THEN
            Returns(Error(<<"Layer not found or no data available for the specified date/area">>),
                    TRUE, requests)
        ELSE Returns(HttpStatus(up.status), TRUE, requests)
    ELSE CASE up.payload = "ok" ->
                Returns(<<"GIBS Satellite Image Retrieved!\n", "Image URL: ", "final_url">>,
                        FALSE, requests)
           [] up.payload = "error_message" ->
                \* a ServiceException document, not an image
                Returns(Error(<<"GIBS service returned an error. Please check your parameters.">>),
                        TRUE, requests)
           [] OTHER ->
                Returns(Error(<<"Unexpected response type: ", "text/html">>), TRUE, requests)

get_gibs_image_definition(layer, bbox, date, width, height, format, projection, up) ==
    LET bbox_parts == split(bbox.s)
        v == [k \in 1..4 |-> FloatValue[bbox_parts[k]]]
        d == strptime(date)
        params == << <<"LAYERS", str(layer)>>, <<"BBOX", str(bbox)>>, <<"WIDTH", str(width)>>,
                     <<"HEIGHT", str(height)>>, <<"FORMAT", str(format)>>,
                     <<"CRS", crs(lower(projection.s))>> >>
                  \o (IF Truthy(date) THEN << <<"TIME", str(date)>> >> ELSE <<>>)
    IN  IF ~(format.t = "str" /\ format.s \in valid_formats) THEN
            Returns(Error(<<"Invalid format '", str(format),
                            "'. Valid options: image/png, image/jpeg">>), TRUE, <<>>)
        ELSE IF projection.t # "str" THEN Raises(AttributeError(projection, "lower"), <<>>)
        ELSE IF lower(projection.s) \notin valid_projections THEN
            Returns(Error(<<"Invalid projection '", projection.s,
                            "'. Valid options: epsg4326, epsg3857">>), TRUE, <<>>)
        ELSE IF ~IsNumber(width) THEN Raises(CompareError("<", width), <<>>)
        ELSE IF width.i < 1 \/ width.i > 2048 THEN
            Returns(Error(<<"width must be between 1 and 2048 pixels">>), TRUE, <<>>)
        ELSE IF ~IsNumber(height) THEN Raises(CompareError("<", height), <<>>)
        ELSE IF height.i < 1 \/ height.i > 2048 THEN
            Returns(Error(<<"height must be between 1 and 2048 pixels">>), TRUE, <<>>)
        ELSE IF bbox.t # "str" THEN Raises(AttributeError(bbox, "split"), <<>>)
        ELSE IF Len(bbox_parts) # 4 THEN
            Returns(Error(<<"bbox must be in format 'min_lon,min_lat,max_lon,max_lat'">>),
                    TRUE, <<>>)
        ELSE IF \E k \in 1..4 : bbox_parts[k] \notin DOMAIN FloatValue THEN
            Returns(Error(<<"bbox coordinates must be valid numbers">>), TRUE, <<>>)
        ELSE IF float_ge(v[1], v[3]) \/ float_ge(v[2], v[4]) THEN
            Returns(Error(<<"Invalid bounding box coordinates">>), TRUE, <<>>)
        ELSE IF \/ float_lt(v[1], Float(-180)) \/ float_gt(v[3], Float(180))
                \/ float_lt(v[2], Float(-90)) \/ float_gt(v[4], Float(90)) THEN
            Returns(Error(<<"Coordinates must be within valid ranges (lon: -180 to 180, lat: -90 to 90)">>),
                    TRUE, <<>>)
        ELSE IF Truthy(date) /\ ~d.ok THEN
            IF d.exc = "ValueError" THEN
                Returns(Error(<<"date must be in YYYY-MM-DD format">>), TRUE, <<>>)
            ELSE Raises(StrptimeTypeError(date), <<>>)
        ELSE GibsResponse(params, up)

get_gibs_layers_definition ==
    Returns(<<"Available GIBS Layers:\n\n", "True Color Imagery", ":\n">>, FALSE, <<>>)

\* ------------------------------------------------------------ image_analysis.py
\* the strings requests.get accepts as a URL (any other value raises
\* requests.exceptions.MissingSchema before a request is sent)
IsUrl(v) == v.t = "str" /\ v.s \in {"https://apod.nasa.gov/apod/image/2507/Trifid2048.jpg"}

\* lines 38-39: image.convert('RGB') of the modes JPEG cannot hold
convert(mode) == IF mode \in {"RGBA", "LA", "P"} THEN "RGB" ELSE mode

\* lines 50-55: PNG for a PNG in mode RGBA, else JPEG; mode is image.mode there
save_format(content_type, mode) ==
    IF content_type = "image/png" /\ mode = "RGBA" THEN "image/png" ELSE "image/jpeg"

\* the dict analyze_image_from_url returns
analyze_image_from_url(image_url, up) ==
    LET requests == <<UpstreamRequest("IMAGE", << <<"url", str(image_url)>> >>)>>
        Failed(error, reqs) ==
            [success |-> FALSE, error |-> error, mime_type |-> "", requests |-> reqs]
    IN  IF ~IsUrl(image_url) THEN
            Failed(<<"Failed to fetch image: ", "Invalid URL '", str(image_url),
                     "': No scheme supplied.">>, <<>>)
        ELSE IF up.net = "timeout" THEN
            Failed(<<"Failed to fetch image: ", "Read timed out. (read timeout=30)">>, requests)
        ELSE IF up.net = "error" THEN
            Failed(<<"Failed to fetch image: ", "Max retries exceeded with url">>, requests)
        ELSE IF IsErrorStatus(up.status) THEN
            Failed(<<"Failed to fetch image: ", ToString(up.status), " Client Error">>, requests)
        ELSE CASE up.payload \in {"error_message", "not_json"} ->
                    \* the content type is no image/...
                    Failed(<<"Error processing image: ",
                             "URL does not point to an image. Content-Type: ", "text/html">>,
                           requests)
               [] up.payload \in {"bad_shape", "empty"} ->
                    \* an image content type over bytes PIL cannot identify
                    Failed(<<"Unable to process the image. Invalid image format.">>, requests)
               [] up.payload = "ok" ->
                    [success |-> TRUE, error |-> <<>>,
                     mime_type |-> save_format(up.content_type, convert(up.mode)),
                     requests |-> requests]

mcp_analyze_image_tool_definition(image_url, up) ==
    LET result == analyze_image_from_url(image_url, up) IN
    IF result.success THEN
        ReturnsList(<<ImageContent(result.mime_type),
                      TextContent(<<"Image Analysis Ready!\n\n", "**Original URL:** ",
                                    str(image_url)>>)>>,
                    FALSE, result.requests)
    ELSE ReturnsList(<<TextContent(Error(result.error))>>, TRUE, result.requests)

\* -------------------------------------------------------------------- index.py
\* int(x) on the strings the requests draw a and b from
IntValue == [x \in {"2", "3"} |-> CASE x = "2" -> 2 [] x = "3" -> 3]

\* int(v): the int, or ValueError / TypeError
int(v) ==
    CASE v.t \in {"int", "bool"} -> [ok |-> TRUE, value |-> v.i]
      [] v.t = "str" /\ v.s \in DOMAIN IntValue -> [ok |-> TRUE, value |-> IntValue[v.s]]
      [] OTHER -> [ok |-> FALSE, value |-> 0]

\* lines 58-65: return int(a)+int(b)
get_add(a, b) ==
    IF int(a).ok /\ int(b).ok THEN [out |-> "return", value |-> int(a).value + int(b).value]
    ELSE [out |-> "raise", value |-> 0]

\* ------------------------------------------------------------------ server.py
Tool(name, properties, required) ==
    [name |-> name, properties |-> properties, required |-> required]

\* the list with the Mars tool under the name the FastMCP server gives it
handle_list_tools_renamed ==
    << Tool("get_apod", <<"date", "start_date", "end_date", "count">>, {}),
       Tool("get_mars_image_tool", <<"earth_date", "sol", "camera">>, {}),
       Tool("get_neo_feed", <<"start_date", "end_date", "limit_per_day">>, {}),
       Tool("get_earth_image_tool", <<"earth_date", "type", "limit">>, {}),
       Tool("get_gibs_image",
            <<"layer", "bbox", "date", "width", "height", "format", "projection">>, {}),
       Tool("get_gibs_layers", <<>>, {}),
       Tool("get_image_analyze", <<"image_url">>, {"image_url"}) >>

\* the list grown by one descriptor once a request has been served
handle_list_tools_appending ==
    << Tool("get_apod", <<"date", "start_date", "end_date", "count">>, {}),
       Tool("get_mars_image", <<"earth_date", "sol", "camera">>, {}),
       Tool("get_neo_feed", <<"start_date", "end_date", "limit_per_day">>, {}),
       Tool("get_earth_image_tool", <<"earth_date", "type", "limit">>, {}),
       Tool("get_gibs_image",
            <<"layer", "bbox", "date", "width", "height", "format", "projection">>, {}),
       Tool("get_gibs_layers", <<>>, {}),
       Tool("get_image_analyze", <<"image_url">>, {"image_url"}) >>
    \o (IF served > 0 THEN << Tool("get_add", <<"a", "b">>, {}) >> ELSE << >>)

\* the list declaring a parameter required that the handler does not test
handle_list_tools_required ==
    << Tool("get_apod", <<"date", "start_date", "end_date", "count">>, {"date"}),
       Tool("get_mars_image", <<"earth_date", "sol", "camera">>, {}),
       Tool("get_neo_feed", <<"start_date", "end_date", "limit_per_day">>, {}),
       Tool("get_earth_image_tool", <<"earth_date", "type", "limit">>, {}),
       Tool("get_gibs_image",
            <<"layer", "bbox", "date", "width", "height", "format", "projection">>, {}),
       Tool("get_gibs_layers", <<>>, {}),
       Tool("get_image_analyze", <<"image_url">>, {"image_url"}) >>

\* the descriptors tools/list answers with, in order
handle_list_tools ==
    << Tool("get_apod", <<"date", "start_date", "end_date", "count">>, {}),
       Tool("get_mars_image", <<"earth_date", "sol", "camera">>, {}),
       Tool("get_neo_feed", <<"start_date", "end_date", "limit_per_day">>, {}),
       Tool("get_earth_image_tool", <<"earth_date", "type", "limit">>, {}),
       Tool("get_gibs_image",
            <<"layer", "bbox", "date", "width", "height", "format", "projection">>, {}),
       Tool("get_gibs_layers", <<>>, {}),
       Tool("get_image_analyze", <<"image_url">>, {"image_url"}) >>

\* every key a request's arguments mapping is drawn over
ArgKeys ==
    {"date", "start_date", "end_date", "count", "earth_date", "sol", "camera",
     "limit_per_day", "type", "limit", "layer", "bbox", "width", "height", "format",
     "projection", "image_url", "a", "b", "extra"}

\* the empty mapping {}
EmptyArguments == [k \in ArgKeys |-> Absent]

\* no adapter was called
NotCalled ==
    [out |-> "none", text |-> <<>>, blocks |-> <<>>, exc |-> <<>>, failure |-> FALSE,
     requests |-> <<>>]

\* The body of the try statement of handle_call_tool, lines 189-246: the branch
\* taken, the adapter call it made (NotCalled when it made none) and what the
\* body did: it returned content, or an exception left it (exc is its str(e)).
TryReturn(branch, adapter, content) ==
    [branch |-> branch, adapter |-> adapter, out |-> "return", content |-> content,
     exc |-> <<>>]

TryRaise(branch, adapter, exc) ==
    [branch |-> branch, adapter |-> adapter, out |-> "raise", content |-> <<>>, exc |-> exc]

\* result = await adapter(...); return [types.TextContent(type="text", text=result)]
TextResult(branch, adapter) ==
    IF adapter.out = "raise" THEN TryRaise(branch, adapter, adapter.exc)
    ELSE TryReturn(branch, adapter, <<TextContent(adapter.text)>>)

\* the branch without its test of image_url
ImageAnalyzeBranch_unchecked(arguments, up) ==
    TryReturn("get_image_analyze",
              mcp_analyze_image_tool_definition(Get(arguments, "image_url"), up),
              <<ListValue(mcp_analyze_image_tool_definition(Get(arguments, "image_url"), up).blocks)>>)

\* lines 238-243
ImageAnalyzeBranch(arguments, up) ==
    LET image_url == Get(arguments, "image_url")
        result == mcp_analyze_image_tool_definition(image_url, up)
    IN  IF ~Truthy(image_url) THEN
            TryRaise("get_image_analyze", NotCalled, <<"image_url is required">>)
        ELSE TryReturn("get_image_analyze", result, <<ListValue(result.blocks)>>)

TryBody(name, arguments, up) ==
    CASE name = "get_apod" ->
            TextResult(name, get_astronomy_picture_of_the_day_tool_defnition(
                Get(arguments, "date"), Get(arguments, "start_date"),
                Get(arguments, "end_date"), Get(arguments, "count"), up))
      [] name = "get_mars_image" ->
            TextResult(name, get_mars_image_definition(
                Get(arguments, "earth_date"), Get(arguments, "sol"),
                Get(arguments, "camera"), up))
      [] name = "get_neo_feed" ->
            TextResult(name, get_neo_feed_definition(
                Get(arguments, "start_date"), Get(arguments, "end_date"),
                GetDefault(arguments, "limit_per_day", PyInt(2)), up))
      [] name = "get_earth_image_tool" ->
            TextResult(name, get_earth_image_definition(
                Get(arguments, "earth_date"), Get(arguments, "type"),
                GetDefault(arguments, "limit", PyInt(1)), up))
      [] name = "get_gibs_image" ->
            TextResult(name, get_gibs_image_definition(
                GetDefault(arguments, "layer", PyStr("MODIS_Terra_CorrectedReflectance_TrueColor")),
                GetDefault(arguments, "bbox", PyStr("-180,-90,180,90")),
                Get(arguments, "date"),
                GetDefault(arguments, "width", PyInt(512)),
                GetDefault(arguments, "height", PyInt(512)),
                GetDefault(arguments, "format", PyStr("image/png")),
                GetDefault(arguments, "projection", PyStr("epsg4326")), up))
      [] name = "get_gibs_layers" -> TextResult(name, get_gibs_layers_definition)
      [] name = "get_image_analyze" -> ImageAnalyzeBranch(arguments, up)
      [] OTHER -> TryRaise("unknown", NotCalled, <<"Unknown tool: ", name>>)

\* the keys each branch of handle_call_tool passes to arguments.get
KeysRead(name) ==
    CASE name = "get_apod" -> {"date", "start_date", "end_date", "count"}
      [] name = "get_mars_image" -> {"earth_date", "sol", "camera"}
      [] name = "get_neo_feed" -> {"start_date", "end_date", "limit_per_day"}
      [] name = "get_earth_image_tool" -> {"earth_date", "type", "limit"}
      [] name = "get_gibs_image" ->
            {"layer", "bbox", "date", "width", "height", "format", "projection"}
      [] name = "get_image_analyze" -> {"image_url"}
      [] OTHER -> {}

\* params.arguments absent
NoArguments == [isNone |-> TRUE, map |-> EmptyArguments]
Arguments(map) == [isNone |-> FALSE, map |-> map]

\* handle_call_tool(name, arguments), lines 180-249: what the call does (out),
\* the list it returns (content), and the record of its try body.
\* the handler without its except clause: the exception leaves it
ExceptClause_reraises(body) ==
    IF body.out = "raise" THEN
        [out |-> "raise", content |-> <<>>, exc |-> body.exc, body |-> body]
    ELSE [out |-> "return", content |-> body.content, exc |-> <<>>, body |-> body]

\* lines 248-249, applied to what the try body did
ExceptClause(body) ==
    IF body.out = "raise" THEN
        \* except Exception as e: return [TextContent(text=f"Error: {str(e)}")]
        [out |-> "return", content |-> <<TextContent(Error(body.exc))>>, exc |-> <<>>,
         body |-> body]
    ELSE [out |-> "return", content |-> body.content, exc |-> <<>>, body |-> body]

\* the handler refusing a mapping with a key that no branch reads
handle_call_tool_strict(name, arguments, up) ==
    IF ~arguments.isNone /\ arguments.map["extra"].t # "absent" THEN
        ExceptClause(TryRaise(name, NotCalled, <<"Unexpected argument: ", "extra">>))
    ELSE ExceptClause(TryBody(name, IF arguments.isNone THEN EmptyArguments
                                    ELSE arguments.map, up))

handle_call_tool(name, arguments, up) ==
    ExceptClause(TryBody(name, IF arguments.isNone THEN EmptyArguments ELSE arguments.map, up))

\* handle_call_tool was not called
NoCall ==
    [out |-> "none", content |-> <<>>, exc |-> <<>>,
     body |-> [branch |-> "none", adapter |-> NotCalled, out |-> "none", content |-> <<>>,
               exc |-> <<>>]]

\* ------------------------------------------------------------ JSON-RPC frames
NoResult == [kind |-> "none", tools |-> <<>>, content |-> <<>>]

ResultFrame(id, result) ==
    [jsonrpc |-> "2.0", id |-> id, member |-> "result", code |-> 0, message |-> <<>>,
     result |-> result]

ErrorFrame(id, code, message) ==
    [jsonrpc |-> "2.0", id |-> id, member |-> "error", code |-> code, message |-> message,
     result |-> NoResult]

\* a frame that answers no request (progress, log): k tells them apart
NotificationFrame(k) ==
    [jsonrpc |-> "2.0", id |-> None, member |-> "notification", code |-> k, message |-> <<>>,
     result |-> NoResult]

\* The method table the Server object applies to one decoded request: the
\* handlers registered with @server.list_tools() and @server.call_tool() answer
\* tools/list and tools/call, the initialization options answer initialize;
\* made is the handle_call_tool call a tools/call request leads to.
Dispatcher(rpc, made) ==
    CASE rpc.method = "initialize" ->
            ResultFrame(rpc.id, [kind |-> "capabilities", tools |-> <<>>, content |-> <<>>])
      [] rpc.method = "tools/list" ->
            ResultFrame(rpc.id, [kind |-> "tools", tools |-> handle_list_tools,
                                 content |-> <<>>])
      [] rpc.method = "tools/call" ->
            ResultFrame(rpc.id,
                        [kind |-> "content", tools |-> <<>>,
                         content |-> made.content])
      [] OTHER -> ErrorFrame(rpc.id, -32601, <<"Method not found: ", rpc.method>>)

\* the frames one run of the server over one request yields: n frames, the
\* answer of the dispatcher last
Frames(rpc, n, made) ==
    [k \in 1..n |-> IF k = n THEN Dispatcher(rpc, made) ELSE NotificationFrame(k)]

\* ------------------------------------------------------------------ handle_mcp
\* starlette Response / StreamingResponse: frames are the JSON values of the
\* body, one for a JSON body, one per "data: ...\n\n" event for a stream
\* the body is the sequence of chunks sent, each the text around one JSON value
Chunk(prefix, json, suffix) == [prefix |-> prefix, json |-> json, suffix |-> suffix]

Response(status_code, media_type, frames) ==
    [status_code |-> status_code, media_type |-> media_type, streaming |-> FALSE,
     frames |-> frames, body |-> [k \in DOMAIN frames |-> Chunk("", frames[k], "")]]

\* the generator sending the first response only
generate_sse_first(frames) ==
    [k \in DOMAIN frames \cap {1} |-> Chunk("data: ", frames[k], "\n\n")]

\* lines 287-290 (and 313-314): yield f"data: {json.dumps(response)}\n\n"
generate_sse(frames) == [k \in DOMAIN frames |-> Chunk("data: ", frames[k], "\n\n")]

StreamingResponse(media_type, frames) ==
    [status_code |-> 200, media_type |-> media_type, streaming |-> TRUE, frames |-> frames,
     body |-> generate_sse(frames)]

\* the except clause answering as for a parse error
InternalError_parse_error(exc) ==
    Response(400, "application/json",
             <<ErrorFrame(None, -32700, <<"Parse error: ">> \o exc)>>)

\* lines 297-309
InternalError(exc) ==
    Response(500, "application/json",
             <<ErrorFrame(None, -32603, <<"Internal error: ">> \o exc)>>)

\* a request body that request.body(), body.decode() or json.loads() raises on,
\* and str(e) of what is raised
BodyError(body) ==
    CASE body = "unreadable" -> <<"ClientDisconnect">>
      [] body = "not_utf8" -> <<"'utf-8' codec can't decode byte 0xff in position 0">>
      [] body = "not_json" -> <<"Expecting value: line 1 column 1 (char 0)">>

\* What iterating server.run(...) does is decided outside this repository: it
\* raises, or it yields a number of frames.
RunOutcomes ==
    {[raises |-> TRUE, frames |-> 0]} \cup [raises : {FALSE}, frames : 0..MaxFrames]

\* The POST branch, lines 253-309: the response, whether server.run was
\* entered (ran), whether the except clause was reached (raised), and the
\* handle_call_tool call made under server.run.
HandlePostResult(resp, entered, excepted, made) ==
    [response |-> resp, ran |-> entered, raised |-> excepted, call |-> made]

\* lines 269-309, given the handle_call_tool call made under server.run
PostResponse(req, run, made) ==
    IF req.body # "json" THEN
        HandlePostResult(InternalError(BodyError(req.body)), FALSE, TRUE, NoCall)
    ELSE IF run.raises THEN
        HandlePostResult(
            InternalError(<<"'async for' requires an object with __aiter__ method, got coroutine">>),
            TRUE, TRUE, NoCall)
    ELSE IF made.out = "raise" THEN HandlePostResult(InternalError(made.exc), TRUE, TRUE, made)
    ELSE IF run.frames = 1 THEN
        HandlePostResult(Response(200, "application/json", Frames(req.rpc, run.frames, made)),
                         TRUE, FALSE, made)
    ELSE HandlePostResult(StreamingResponse("text/event-stream",
                                            Frames(req.rpc, run.frames, made)),
                          TRUE, FALSE, made)

handle_mcp_post(req, run, up) ==
    PostResponse(req, run,
                 IF req.body = "json" /\ req.rpc.method = "tools/call" /\ ~run.raises
                    /\ run.frames >= 1
                 THEN handle_call_tool(req.rpc.name, req.rpc.arguments, up) ELSE NoCall)

\* the handler falling off its last branch: no response is returned
handle_mcp_other_none == Response(0, "", <<>>)

\* the GET branch refusing the method
handle_mcp_get_refused == Response(405, "", <<>>)

\* lines 311-319
handle_mcp_get ==
    StreamingResponse("text/event-stream",
                      <<[jsonrpc |-> "", id |-> None, member |-> "ping", code |-> 0,
                         message |-> <<>>, result |-> NoResult]>>)

\* lines 321-322
handle_mcp_other == Response(405, "", <<>>)

\* ------------------------------------------------------------------- requests
\* the values the requests draw each argument from (Absent: the key is missing)
DateValues == {Absent, PyStr("2024-01-01"), PyStr("tomorrow")}
EndDateValues ==
    {Absent, PyStr("2024-01-05"), PyStr("2024-01-08"), PyStr("2024-01-09"),
     PyStr("2023-12-31"), PyStr("tomorrow")}

ToMap(r) == [k \in ArgKeys |-> IF k \in DOMAIN r THEN r[k] ELSE Absent]

Present(map) == Cardinality({k \in ArgKeys : map[k].t # "absent"})

ToolArguments(name) ==
    CASE name = "get_apod" ->
            [date : DateValues \cup {PyInt(20240101), PyStr("")},
             start_date : DateValues,
             end_date : {Absent, PyStr("2024-01-05")},
             count : {Absent, PyInt(0), PyInt(3), PyStr("3")},
             extra : {Absent, PyStr("x")}]
      [] name = "get_mars_image" ->
            [earth_date : DateValues,
             sol : {Absent, PyInt(-1), PyInt(0), PyStr("5")},
             camera : {Absent, PyStr("mast"), PyStr("xcam"), PyInt(7)},
             date : {Absent, PyStr("2024-01-01")}]
      [] name = "get_neo_feed" ->
            [start_date : DateValues \cup {PyStr("")},
             end_date : EndDateValues,
             limit_per_day : {Absent, PyInt(0), PyStr("2"), None},
             extra : {Absent, PyStr("x")}]
      [] name = "get_earth_image_tool" ->
            [earth_date : DateValues,
             type : {Absent, PyStr("Natural"), PyStr("bogus"), PyInt(1)},
             limit : {Absent, PyInt(0), PyInt(2), PyInt(11), PyStr("1")},
             extra : {Absent, PyStr("x")}]
      [] name = "get_gibs_image" ->
            [layer : {Absent, PyStr("MODIS_Terra_Aerosol")},
             bbox : {Absent, PyStr("-10,30,40,50"), PyStr("1,2,3"), PyStr("a,b,c,d"),
                     PyStr("40,30,-10,50"), PyStr("-190,0,0,10"), PyStr("nan,30,40,50"),
                     PyInt(5)},
             date : DateValues,
             width : {Absent, PyInt(0), PyInt(2049), PyStr("512")},
             height : {Absent, PyInt(0), PyBool(TRUE)},
             format : {Absent, PyStr("image/jpeg"), PyStr("image/gif")},
             projection : {Absent, PyStr("EPSG3857"), PyStr("epsg9999"), PyInt(4326)}]
      [] name = "get_gibs_layers" -> [layer : {Absent, PyStr("MODIS_Terra_Aerosol")}]
      [] name = "get_image_analyze" ->
            [image_url : {Absent, PyStr(""), PyStr("not a url"), PyInt(5),
                          PyStr("https://apod.nasa.gov/apod/image/2507/Trifid2048.jpg")},
             extra : {Absent, PyStr("x")}]
      [] name = "get_add" ->
            [a : {Absent, PyStr("2"), PyInt(2), PyStr("two")}, b : {Absent, PyStr("3")}]
      [] OTHER -> {[date |-> Absent], [date |-> PyStr("2024-01-01")]}

\* the names tools/call is asked for: those listed, and some that are not
CalledNames ==
    {handle_list_tools[k].name : k \in DOMAIN handle_list_tools}
    \cup {"get_add", "GET_APOD", "get_apod "}

CallArguments(name) ==
    {NoArguments}
    \cup {Arguments(ToMap(r)) : r \in {x \in ToolArguments(name) : Present(ToMap(x)) <= MaxArgs}}

NoRpc == [method |-> "", id |-> None, name |-> "", arguments |-> NoArguments]

Ids == {None, PyInt(1)}

RpcRequests ==
    {[method |-> m, id |-> i, name |-> "", arguments |-> NoArguments] :
        m \in {"initialize", "tools/list", "resources/list", ""}, i \in Ids}
    \cup UNION {[method : {"tools/call"}, id : Ids, name : {n}, arguments : CallArguments(n)] :
                  n \in CalledNames}

Requests ==
    {[method |-> "GET", body |-> "none", rpc |-> NoRpc],
     [method |-> "HEAD", body |-> "none", rpc |-> NoRpc]}
    \cup {[method |-> "POST", body |-> b, rpc |-> NoRpc] :
            b \in {"unreadable", "not_utf8", "not_json"}}
    \cup {[method |-> "POST", body |-> "json", rpc |-> r] : r \in RpcRequests}

NoRequest == [method |-> "", body |-> "none", rpc |-> NoRpc]
NoResponse == Response(0, "", <<>>)

\* ------------------------------------------------------------- main, --stdio
\* the requests a client writes on the input channel, each with an id
StdioRequests ==
    {[method |-> m, id |-> PyInt(i), name |-> "", arguments |-> NoArguments] :
        m \in {"initialize", "tools/list", "resources/list"}, i \in 1..2}
    \cup {[method |-> "tools/call", id |-> PyInt(i), name |-> "get_gibs_layers",
           arguments |-> NoArguments] : i \in 1..2}

\* a line of the standard output: text printed, or a frame
NoFrame ==
    [jsonrpc |-> "", id |-> None, member |-> "none", code |-> 0, message |-> <<>>,
     result |-> NoResult]
TextLine(text) == [text |-> text, frame |-> NoFrame]
FrameLine(frame) == [text |-> "", frame |-> frame]

\* What asyncio.run(mcp.server.stdio.stdio_server(server)) does is decided by
\* what stdio_server returns for that argument: asyncio.run raises on what is
\* no coroutine, or the channel is served until its input closes.
StdioOutcomes == {"raises", "serves"}

\* ------------------------------------------------- handle_mcp, several at once
\* the requests served at the same time
Tasks == {1, 2}

\* the requests and the upstream outcomes the concurrent tasks are drawn from
TaskRequests ==
    {[method |-> "POST", body |-> b, rpc |-> NoRpc] : b \in {"unreadable", "not_json"}}
    \cup {[method |-> "POST", body |-> "json",
           rpc |-> [method |-> m, id |-> PyInt(1), name |-> "", arguments |-> NoArguments]] :
            m \in {"initialize", "tools/list"}}
    \cup {[method |-> "POST", body |-> "json",
           rpc |-> [method |-> "tools/call", id |-> PyInt(1), name |-> n,
                    arguments |-> NoArguments]] : n \in {"get_apod", "get_image_analyze"}}

TaskUpstream == {Plain("timeout", 0, "ok"), Plain("response", 200, "ok")}

\* the locals of one call of handle_mcp: request, the fate of its server.run
\* and of its upstream request, the list `responses`, and the response returned
Task(at, req, run, up, collected, resp) ==
    [at |-> at, request |-> req, run |-> run, up |-> up, responses |-> collected,
     response |-> resp]

NoTask == Task("free", NoRequest, [raises |-> FALSE, frames |-> 0], NoUpstream, <<>>, NoResponse)

\* one list shared by the tasks: an append is seen by every task collecting
append_shared(all, i, frame) ==
    [j \in DOMAIN all |->
        IF all[j].at = "running" THEN [all[j] EXCEPT !.responses = Append(@, frame)]
        ELSE all[j]]

\* line 278, responses.append(response), on the list of line 269
append(all, i, frame) == [all EXCEPT ![i].responses = Append(@, frame)]

\* the handle_call_tool call the run of task t makes
TaskCall(t) ==
    IF t.request.rpc.method = "tools/call" /\ t.run.frames >= 1
    THEN handle_call_tool(t.request.rpc.name, t.request.rpc.arguments, t.up) ELSE NoCall

\* ---------------------------------------------------------------- the machine
Init ==
    /\ pc = "idle"
    /\ request = NoRequest
    /\ response = NoResponse
    /\ ran = FALSE
    /\ raised = FALSE
    /\ call = NoCall
    /\ served = 0
    /\ failures = 0
    /\ upstream = NoUpstream
    /\ responses = <<>>
    /\ registry = handle_list_tools
    /\ written = <<>>
    /\ nread = 0
    /\ stdin_closed = FALSE
    /\ stdout = <<>>
    /\ stdio_pc = "start"
    /\ stdio_request = NoRpc
    /\ tasks = [i \in Tasks |-> NoTask]

\* starlette routes a request for /mcp to handle_mcp
Receive ==
    /\ UNCHANGED <<stdioVars, tasks>>
    /\ pc = "idle"
    /\ served < MaxServed
    /\ \E req \in Requests : request' = req
    /\ pc' = "received"
    /\ UNCHANGED <<response, ran, raised, call, served, failures, upstream, responses,
                   registry>>

\* handle_mcp, request.method == "POST"
HandlePost ==
    /\ UNCHANGED <<stdioVars, tasks>>
    /\ pc = "received"
    /\ request.method = "POST"
    /\ \E run \in RunOutcomes, up \in Upstream :
        \E r \in {handle_mcp_post(request, run, up)} :
          /\ response' = r.response
          /\ ran' = r.ran
          /\ raised' = r.raised
          /\ call' = r.call
          /\ upstream' = IF Len(r.call.body.adapter.requests) > 0 THEN up ELSE NoUpstream
          /\ responses' = IF r.ran /\ ~r.raised
                          THEN Frames(request.rpc, run.frames, r.call) ELSE <<>>
    /\ pc' = "responded"
    /\ UNCHANGED <<request, served, failures, registry>>

\* handle_mcp, request.method == "GET"
HandleGet ==
    /\ UNCHANGED <<stdioVars, tasks>>
    /\ pc = "received"
    /\ request.method = "GET"
    /\ response' = handle_mcp_get
    /\ pc' = "responded"
    /\ UNCHANGED <<request, ran, raised, call, served, failures, upstream, responses,
                   registry>>

\* handle_mcp, any other method the route lets through (HEAD comes with GET)
HandleOther ==
    /\ UNCHANGED <<stdioVars, tasks>>
    /\ pc = "received"
    /\ request.method \notin {"POST", "GET"}
    /\ response' = handle_mcp_other
    /\ pc' = "responded"
    /\ UNCHANGED <<request, ran, raised, call, served, failures, upstream, responses,
                   registry>>

\* the response is sent; nothing of the request outlives it
Respond ==
    /\ UNCHANGED <<stdioVars, tasks>>
    /\ pc = "responded"
    /\ pc' = "idle"
    /\ served' = served + 1
    /\ failures' = IF response.status_code >= 400 THEN failures + 1 ELSE failures
    /\ request' = NoRequest
    /\ response' = NoResponse
    /\ ran' = FALSE
    /\ raised' = FALSE
    /\ call' = NoCall
    /\ upstream' = NoUpstream
    /\ responses' = <<>>
    /\ UNCHANGED registry

Next == Receive \/ HandlePost \/ HandleGet \/ HandleOther \/ Respond

Spec == Init /\ [][Next]_vars

\* The event loop runs handle_mcp to its return once starlette has called it
\* (every upstream request answers or times out after 30 s), and the response
\* returned is sent. The requests are those with at most one argument.
LiveRequests ==
    {r \in Requests : r.rpc.arguments.isNone \/ Present(r.rpc.arguments.map) <= 1}

\* starlette routes a request for /mcp to handle_mcp
LiveReceive ==
    /\ UNCHANGED <<stdioVars, tasks>>
    /\ pc = "idle"
    /\ served < MaxServed
    /\ \E req \in LiveRequests : request' = req
    /\ pc' = "received"
    /\ UNCHANGED <<response, ran, raised, call, served, failures, upstream, responses,
                   registry>>

LiveNext == LiveReceive \/ HandlePost \/ HandleGet \/ HandleOther \/ Respond

LiveSpec ==
    /\ Init
    /\ [][LiveNext]_vars
    /\ WF_vars(HandlePost)
    /\ WF_vars(HandleGet)
    /\ WF_vars(HandleOther)
    /\ WF_vars(Respond)

\* ------------------------------------------------------- the stdio transport
\* the client writes one request on the input channel
ClientWrite ==
    /\ ~stdin_closed
    /\ Len(written) < MaxLines
    /\ \E r \in StdioRequests : written' = Append(written, r)
    /\ UNCHANGED <<nread, stdin_closed, stdout, stdio_pc, stdio_request, httpVars, tasks>>

\* the client closes the input channel
ClientClose ==
    /\ ~stdin_closed
    /\ stdin_closed' = TRUE
    /\ UNCHANGED <<written, nread, stdout, stdio_pc, stdio_request, httpVars, tasks>>

\* main, lines 334-338: the banner is printed, then asyncio.run(...)
MainStdio ==
    /\ stdio_pc = "start"
    /\ stdout' = Append(stdout, TextLine("Running with stdio transport..."))
    /\ \E outcome \in StdioOutcomes :
          stdio_pc' = IF outcome = "raises" THEN "exited" ELSE "serving"
    /\ UNCHANGED <<written, nread, stdin_closed, stdio_request, httpVars, tasks>>

\* the next line of the input channel is read
StdioRead ==
    /\ stdio_pc = "serving"
    /\ nread < Len(written)
    /\ stdio_request' = written[nread + 1]
    /\ nread' = nread + 1
    /\ stdio_pc' = "handling"
    /\ UNCHANGED <<written, stdin_closed, stdout, httpVars, tasks>>

\* the request in flight is dispatched and its response written
StdioWrite ==
    /\ stdio_pc = "handling"
    /\ \E up \in Upstream :
        \E made \in {IF stdio_request.method = "tools/call"
                      THEN handle_call_tool(stdio_request.name, stdio_request.arguments, up)
                      ELSE NoCall} :
            stdout' = Append(stdout, FrameLine(Dispatcher(stdio_request, made)))
    /\ stdio_request' = NoRpc
    /\ stdio_pc' = "serving"
    /\ UNCHANGED <<written, nread, stdin_closed, httpVars, tasks>>

\* the input channel is closed and drained: the loop ends
StdioEof ==
    /\ stdio_pc = "serving"
    /\ stdin_closed
    /\ nread = Len(written)
    /\ stdio_pc' = "exited"
    /\ UNCHANGED <<written, nread, stdin_closed, stdout, stdio_request, httpVars, tasks>>

StdioNext ==
    ClientWrite \/ ClientClose \/ MainStdio \/ StdioRead \/ StdioWrite \/ StdioEof

StdioSpec == Init /\ [][StdioNext]_vars

\* --------------------------------------------- handle_mcp, several at once
\* uvicorn starts handle_mcp for a request while others are in flight
TaskReceive(i) ==
    /\ tasks[i].at = "free"
    /\ \E req \in TaskRequests, run \in RunOutcomes, up \in TaskUpstream :
          tasks' = [tasks EXCEPT ![i] = Task("received", req, run, up, <<>>, NoResponse)]
    /\ UNCHANGED <<httpVars, stdioVars>>

\* lines 256-259 and 269: body = await request.body(); json.loads; responses = []
TaskParse(i) ==
    /\ tasks[i].at = "received"
    /\ tasks' = [tasks EXCEPT ![i] =
            IF tasks[i].request.body # "json"
            THEN [@ EXCEPT !.at = "responded",
                           !.response = InternalError(BodyError(tasks[i].request.body))]
            ELSE [@ EXCEPT !.at = "running", !.responses = <<>>]]
    /\ UNCHANGED <<httpVars, stdioVars>>

\* lines 270-278: one turn of `async for response in server.run(...)`: it
\* raises, or the next frame is appended to responses
TaskCollect(i) ==
    /\ tasks[i].at = "running"
    /\ \/ /\ tasks[i].run.raises
          /\ tasks' = [tasks EXCEPT ![i] =
                [@ EXCEPT !.at = "responded",
                          !.response = PostResponse(tasks[i].request, tasks[i].run,
                                                    NoCall).response]]
       \/ /\ ~tasks[i].run.raises
          /\ Len(tasks[i].responses) < tasks[i].run.frames
          /\ tasks' = append(tasks, i,
                             Frames(tasks[i].request.rpc, tasks[i].run.frames,
                                    TaskCall(tasks[i]))[Len(tasks[i].responses) + 1])
    /\ UNCHANGED <<httpVars, stdioVars>>

\* lines 280-295: the iteration is over, the response is built from responses
TaskReturn(i) ==
    /\ tasks[i].at = "running"
    /\ ~tasks[i].run.raises
    /\ Len(tasks[i].responses) >= tasks[i].run.frames
    /\ tasks' = [tasks EXCEPT ![i] =
            [@ EXCEPT !.at = "responded",
                      !.response = IF Len(tasks[i].responses) = 1
                                   THEN Response(200, "application/json", tasks[i].responses)
                                   ELSE StreamingResponse("text/event-stream",
                                                          tasks[i].responses)]]
    /\ UNCHANGED <<httpVars, stdioVars>>

\* the response is sent and the task ends
TaskRespond(i) ==
    /\ tasks[i].at = "responded"
    /\ tasks' = [tasks EXCEPT ![i] = NoTask]
    /\ UNCHANGED <<httpVars, stdioVars>>

ConcurrentNext ==
    \E i \in Tasks :
        TaskReceive(i) \/ TaskParse(i) \/ TaskCollect(i) \/ TaskReturn(i) \/ TaskRespond(i)

ConcurrentSpec == Init /\ [][ConcurrentNext]_vars

\* ------------------------------------------------------------------ properties
ToolNames == {handle_list_tools[k].name : k \in DOMAIN handle_list_tools}

\* handle_mcp has answered a POST under which handle_call_tool was called
CallMade == pc = "responded" /\ call.out # "none"

\* the frame that answers the request: the last one of the response
Answer == response.frames[Len(response.frames)]

IsErrorText(block) ==
    block.type = "text" /\ Len(block.text) >= 1 /\ block.text[1] = "Error: "

SingleErrorText(content) == Len(content) = 1 /\ IsErrorText(content[1])

\* C1: a tools/call whose name is not exactly a registered tool name is
\* answered with an RPC error object of code -32601 whose message contains
\* the name, never with a success result carrying a text block.
C1_UnknownToolIsProtocolError ==
    (CallMade /\ request.rpc.name \notin ToolNames) =>
        /\ Answer.member = "error"
        /\ Answer.code = -32601
        /\ \E k \in DOMAIN Answer.message : Answer.message[k] = request.rpc.name

\* C2: whenever the adapter of a registered tool reports a failure (rejected
\* arguments, timeout, non-2xx status, error payload, unexpected payload), the
\* tools/call is answered with a success result whose content is exactly one
\* text block that begins with "Error: ".
C2_AdapterFailureIsOneErrorText ==
    (CallMade /\ call.body.branch \in ToolNames /\ call.body.adapter.out # "none"
        /\ call.body.adapter.failure) =>
        /\ Answer.member = "result"
        /\ SingleErrorText(Answer.result.content)

\* C3: no exception raised inside an adapter escapes handle_call_tool: the
\* call returns normally, its content is a single text block "Error: " followed
\* by the description of the exception, and nothing reaches the except clause
\* of handle_mcp.
C3_NoAdapterExceptionEscapes ==
    CallMade =>
        /\ call.out = "return"
        /\ ~raised
        /\ call.body.adapter.out = "raise" =>
              /\ SingleErrorText(call.content)
              /\ SubSeq(call.content[1].text, 2, Len(call.content[1].text))
                    = call.body.adapter.exc

\* C3 witness: an adapter raised (a str where an int is compared) and the call
\* returned
C3_Witness ==
    /\ CallMade
    /\ call.body.adapter.out = "raise"
    /\ call.out = "return"
    /\ request.rpc.name = "get_apod"
    /\ request.rpc.arguments.map["count"] = PyStr("3")

\* C4: a POST whose body is not valid JSON is answered with an RPC error of
\* code -32700 (or -32600) and a non-2xx status, and server.run is not entered.
C4_MalformedJsonIsParseError ==
    (pc = "responded" /\ request.method = "POST" /\ request.body = "not_json") =>
        /\ response.status_code \notin 200..299
        /\ ~ran
        /\ Len(response.frames) = 1
        /\ Answer.member = "error"
        /\ Answer.code \in {-32700, -32600}

\* C5: a well-formed POST whose method is initialize, tools/list, or tools/call
\* for a registered tool is answered with status 200 and one JSON body that
\* carries a result (for tools/call, with non-empty content).
C5_WellFormedPostIsOneResult ==
    (/\ pc = "responded"
     /\ request.method = "POST"
     /\ request.body = "json"
     /\ \/ request.rpc.method \in {"initialize", "tools/list"}
        \/ request.rpc.method = "tools/call" /\ request.rpc.name \in ToolNames) =>
        /\ response.status_code = 200
        /\ ~response.streaming
        /\ Len(response.frames) = 1
        /\ Answer.member = "result"
        /\ request.rpc.method = "tools/call" => Len(Answer.result.content) >= 1

\* C6: whenever handling a POST raises (the body cannot be read or decoded, or
\* an exception leaves the processing of the request), the response has status
\* 500 and its body is one RPC error envelope with id null, an error member of
\* code -32603 and no result; handle_mcp still returns a response.
C6_RaiseIsInternalError ==
    (pc = "responded" /\ request.method = "POST" /\ (raised \/ request.body # "json")) =>
        /\ response.status_code = 500
        /\ ~response.streaming
        /\ Len(response.frames) = 1
        /\ Answer.id = None
        /\ Answer.member = "error"
        /\ Answer.code = -32603
        /\ Answer.result = NoResult

\* C6 witness: the body of a POST could not be read
C6_Witness ==
    /\ pc = "responded"
    /\ request.method = "POST"
    /\ request.body = "unreadable"
    /\ raised
    /\ response.status_code = 500

\* C7: the names tools/list returns are pairwise distinct, and a name is
\* listed exactly when calling it does not take the unknown-tool path.
C7_ListedIffHandled ==
    /\ (pc = "responded" /\ request.rpc.method = "tools/list" /\ ~raised
            /\ Len(response.frames) >= 1) =>
          \A i, j \in DOMAIN Answer.result.tools :
              i # j => Answer.result.tools[i].name # Answer.result.tools[j].name
    /\ CallMade =>
          (call.body.branch # "unknown" <=> request.rpc.name \in ToolNames)
    /\ CallMade /\ call.body.branch # "unknown" => call.body.branch = request.rpc.name

\* C7 witness: a listed name was called and its branch taken
C7_Witness ==
    /\ CallMade
    /\ request.rpc.name = "get_mars_image"
    /\ call.body.branch = "get_mars_image"

\* a required parameter of the tool called is missing from the arguments
MissingRequired ==
    \E t \in DOMAIN handle_list_tools :
        /\ handle_list_tools[t].name = request.rpc.name
        /\ \E k \in handle_list_tools[t].required :
              request.rpc.arguments.isNone \/ request.rpc.arguments.map[k].t = "absent"

\* C8: a tools/call without a parameter the tool declares required is answered
\* without calling the adapter, with a success result whose content is a
\* single text block beginning "Error: ", never with an RPC error object.
C8_MissingRequiredIsToolError ==
    (CallMade /\ MissingRequired) =>
        /\ call.body.adapter.out = "none"
        /\ call.body.adapter.requests = <<>>
        /\ Answer.member = "result"
        /\ SingleErrorText(Answer.result.content)

\* C8 witness: get_image_analyze was called with an empty mapping
C8_Witness ==
    /\ CallMade
    /\ request.rpc.name = "get_image_analyze"
    /\ ~request.rpc.arguments.isNone
    /\ request.rpc.arguments.map["image_url"].t = "absent"
    /\ response.status_code = 200

\* C9: the content a tools/call returns is a flat, non-empty sequence whose
\* every element is a block of type text, image or resource.
C9_ContentIsFlat ==
    CallMade =>
        /\ Len(call.content) >= 1
        /\ \A k \in DOMAIN call.content : call.content[k].type \in {"text", "image", "resource"}

\* C10: a GET to /mcp is answered with status 200 whatever was served before,
\* and neither server.run nor handle_call_tool is entered for it.
C10_GetIs200 ==
    (pc = "responded" /\ request.method = "GET") =>
        /\ response.status_code = 200
        /\ ~ran
        /\ call = NoCall

\* C10 witness: a GET answered after a request that failed
C10_Witness ==
    /\ pc = "responded"
    /\ request.method = "GET"
    /\ served >= 1
    /\ failures >= 1
    /\ response.status_code = 200

\* ----------------------------------------------------------- get_apod conflicts
\* the arguments get_apod was called with, as the handler passes them on
ApodCalled == CallMade /\ request.rpc.name = "get_apod"
ApodArg(key) ==
    IF request.rpc.arguments.isNone THEN None ELSE Get(request.rpc.arguments.map, key)

\* the messages of the adapter that contain "cannot be used with"
CannotBeUsedWith ==
    {"count cannot be used with date, start_date, or end_date",
     "date cannot be used with start_date or end_date"}

\* C11: get_apod called with a date and a start_date (both non-empty) and no
\* count is answered with a success result whose text block reports a failure
\* containing "cannot be used with", and no upstream request is made.
C11_DateWithStartDateRefused ==
    (ApodCalled /\ Truthy(ApodArg("date")) /\ Truthy(ApodArg("start_date"))
        /\ ApodArg("count") = None) =>
        /\ call.body.adapter.failure
        /\ \E k \in DOMAIN call.body.adapter.text :
              call.body.adapter.text[k] \in CannotBeUsedWith
        /\ call.body.adapter.requests = <<>>
        /\ upstream = NoUpstream
        /\ Answer.member = "result"
        /\ Answer.result.content = <<TextContent(call.body.adapter.text)>>

\* C11 witness: date and start_date both given, the call answered
C11_Witness ==
    /\ ApodCalled
    /\ ApodArg("date") = PyStr("2024-01-01")
    /\ ApodArg("start_date") = PyStr("2024-01-01")
    /\ ApodArg("count") = None
    /\ call.body.adapter.text = Error(<<"date cannot be used with start_date or end_date">>)
    /\ response.status_code = 200

\* C12: whenever get_apod is called with count and with any one of date,
\* start_date or end_date, the call fails with the error "count cannot be used
\* with date, start_date, or end_date" and makes no upstream request.
C12_CountWithAnyDateRefused ==
    (ApodCalled /\ ApodArg("count") # None
        /\ (Truthy(ApodArg("date")) \/ Truthy(ApodArg("start_date"))
             \/ Truthy(ApodArg("end_date")))) =>
        /\ call.body.adapter.text
              = Error(<<"count cannot be used with date, start_date, or end_date">>)
        /\ call.body.adapter.requests = <<>>

\* C13: tools/call get_add with string-typed numeric a and b is answered with
\* a success result whose content is exactly one text block, the decimal
\* rendering of int(a)+int(b).
C13_GetAddReturnsSum ==
    (/\ CallMade
     /\ request.rpc.name = "get_add"
     /\ ~request.rpc.arguments.isNone
     /\ request.rpc.arguments.map["a"].t = "str"
     /\ request.rpc.arguments.map["b"].t = "str"
     /\ get_add(request.rpc.arguments.map["a"], request.rpc.arguments.map["b"]).out
            = "return") =>
        /\ Answer.member = "result"
        /\ Answer.result.content
              = <<TextContent(<<ToString(get_add(request.rpc.arguments.map["a"],
                                                 request.rpc.arguments.map["b"]).value)>>)>>

\* C14: an adapter called with arguments that violate one of its domain
\* constraints returns a failure value itself: no adapter call raises.
C14_AdaptersReturnNeverRaise ==
    (CallMade /\ call.body.adapter.out # "none") => call.body.adapter.out = "return"

\* C15: when the upstream request of a tools/call times out, the call is
\* answered with a success result whose content is a single text block
\* beginning "Error: ".
C15_TimeoutIsOneErrorText ==
    (CallMade /\ upstream.net = "timeout") =>
        /\ response.status_code = 200
        /\ Answer.member = "result"
        /\ SingleErrorText(Answer.result.content)

\* the upstream request of the call failed
UpstreamFailed ==
    \/ upstream.net \in {"timeout", "error"}
    \/ upstream.net = "response" /\ IsErrorStatus(upstream.status)

\* C16: a tools/call issues at most one upstream request, and the failure of
\* that request appears once, as one text block of the content answered.
C16_OneRequestOneErrorBlock ==
    CallMade =>
        /\ Len(call.body.adapter.requests) <= 1
        /\ UpstreamFailed =>
              /\ call.body.adapter.failure
              /\ Answer.member = "result"
              /\ Len(Answer.result.content) = 1
              /\ Answer.result.content[1].type = "text"

\* the keys the input schema of a tool declares
Declared(name) ==
    UNION {{handle_list_tools[t].properties[k] : k \in DOMAIN handle_list_tools[t].properties} :
            t \in {x \in DOMAIN handle_list_tools : handle_list_tools[x].name = name}}

\* the mapping without the keys the schema does not declare
Strip(name, map) == [k \in ArgKeys |-> IF k \in Declared(name) THEN map[k] ELSE Absent]

\* the upstream outcomes the call may have met: the one recorded, any when no
\* request was issued
UpstreamOfCall == IF upstream = NoUpstream THEN Upstream ELSE {upstream}

\* C17: for every registered tool, a call whose arguments hold keys the schema
\* does not declare has the outcome of the call with those keys removed, and a
\* call without arguments has the outcome of the call with the empty mapping.
C17_ExtrasIgnored ==
    (CallMade /\ request.rpc.name \in ToolNames) =>
        \A up \in UpstreamOfCall :
            handle_call_tool(request.rpc.name,
                             Arguments(Strip(request.rpc.name, request.rpc.arguments.map)),
                             up) = call

\* C17 witness: get_apod called with an undeclared key, its request answered
C17_Witness ==
    /\ ApodCalled
    /\ ~request.rpc.arguments.isNone
    /\ request.rpc.arguments.map["extra"] = PyStr("x")
    /\ request.rpc.arguments.map["date"] = PyStr("2024-01-01")
    /\ Len(call.body.adapter.requests) = 1
    /\ ~call.body.adapter.failure

\* C20: initialize always succeeds, whatever was served before, and returns
\* the same capabilities object each time.
C20_InitializeAlwaysSucceeds ==
    (pc = "responded" /\ request.method = "POST" /\ request.body = "json"
        /\ request.rpc.method = "initialize") =>
        /\ response.status_code = 200
        /\ Len(response.frames) = 1
        /\ Answer.member = "result"
        /\ Answer.result = [kind |-> "capabilities", tools |-> <<>>, content |-> <<>>]

\* the frames written to the standard output, in order
StdioResponses == SelectSeq(stdout, LAMBDA line : line.text = "")

\* C18: on the stdio transport at most one request is in flight, and when the
\* loop has ended the input channel was closed and every request written has
\* its response, carrying its id, in the order of arrival.
C18_StdioAnswersInOrder ==
    /\ stdio_pc = "handling" => nread = Len(StdioResponses) + 1
    /\ stdio_pc = "serving" => nread = Len(StdioResponses)
    /\ stdio_pc = "exited" =>
          /\ stdin_closed
          /\ Len(StdioResponses) = Len(written)
          /\ \A k \in DOMAIN written : StdioResponses[k].frame.id = written[k].id

\* C19: whatever the interleaving of the tasks, the response of each is the
\* response handle_mcp gives that request alone.
C19_ResponseAsIfAlone ==
    \A i \in Tasks :
        tasks[i].at = "responded" =>
            \E r \in {handle_mcp_post(tasks[i].request, tasks[i].run, tasks[i].up)} :
                tasks[i].response = r.response

\* C19 witness: a task has answered a tools/call while another one is in
\* flight, one of its two frames collected
C19_Witness ==
    /\ tasks[1].at = "responded"
    /\ tasks[1].request.rpc.method = "tools/call"
    /\ tasks[1].response.status_code = 200
    /\ tasks[2].at = "running"
    /\ Len(tasks[2].responses) = 1
    /\ tasks[2].run.frames = 2

\* server.run has yielded its frames for a POST and handle_mcp has answered
Collected == pc = "responded" /\ request.method = "POST" /\ ran /\ ~raised

\* C21: when server.run yields N >= 2 frames the reply is a text/event-stream
\* of exactly N chunks "data: <json>\n\n", one per frame in the order yielded;
\* when it yields exactly one frame the reply is a plain JSON body.
C21_StreamIffSeveralFrames ==
    Collected =>
        /\ Len(responses) >= 2 =>
              /\ response.streaming
              /\ response.media_type = "text/event-stream"
              /\ response.status_code = 200
              /\ response.body = [k \in 1..Len(responses) |->
                                     Chunk("data: ", responses[k], "\n\n")]
        /\ Len(responses) = 1 =>
              /\ ~response.streaming
              /\ response.media_type = "application/json"
              /\ response.body = <<Chunk("", responses[1], "")>>

\* C21 witness: two frames were yielded and streamed
C21_Witness ==
    /\ Collected
    /\ Len(responses) = 2
    /\ response.streaming
    /\ Len(response.body) = 2
    /\ responses[1].member = "notification"

\* C22: a request whose method is none of initialize, tools/list, tools/call
\* is answered with an RPC error of code -32601, and handle_call_tool is not
\* called for it.
C22_UnknownMethodIsMethodNotFound ==
    (pc = "responded" /\ request.method = "POST" /\ request.body = "json"
        /\ request.rpc.method \notin {"initialize", "tools/list", "tools/call"}) =>
        /\ call = NoCall
        /\ Len(response.frames) >= 1
        /\ Answer.member = "error"
        /\ Answer.code = -32601

\* C23: after any sequence of requests the registry is what it was at startup,
\* and tools/list answers with its descriptors, in its order.
C23_RegistryFrozen ==
    /\ registry = handle_list_tools
    /\ (Collected /\ request.rpc.method = "tools/list" /\ Len(response.frames) >= 1) =>
          Answer.result.tools = registry

\* C23 witness: tools/list answered after another request was served
C23_Witness ==
    /\ Collected
    /\ request.rpc.method = "tools/list"
    /\ Len(response.frames) = 1
    /\ served >= 1
    /\ Len(Answer.result.tools) = 7

\* handle_mcp has returned a response, and a handle_call_tool call made for the
\* request returned one content sequence that one frame carries as its result
OneOutcome ==
    /\ pc = "responded"
    /\ response.status_code # 0
    /\ call.out # "none" =>
          /\ call.out = "return"
          /\ Cardinality({k \in DOMAIN response.frames :
                             response.frames[k].member \in {"result", "error"}}) = 1
          /\ Answer.result.content = call.content

Required(name) ==
    UNION {handle_list_tools[t].required :
            t \in {x \in DOMAIN handle_list_tools : handle_list_tools[x].name = name}}

\* the mapping restricted to a set of keys
Only(keys, map) == [k \in ArgKeys |-> IF k \in keys THEN map[k] ELSE Absent]

\* C25: the parameters a tool advertises are the keys its branch reads (and
\* the call depends on no other key), and a call is refused for the absence of
\* a parameter exactly when the schema lists that parameter as required.
C25_SchemaMatchesDispatch ==
    (CallMade /\ request.rpc.name \in ToolNames) =>
        /\ KeysRead(call.body.branch) = Declared(request.rpc.name)
        /\ \A up \in UpstreamOfCall :
              handle_call_tool(request.rpc.name,
                               Arguments(Only(KeysRead(request.rpc.name),
                                              request.rpc.arguments.map)), up) = call
        /\ \A k \in Declared(request.rpc.name) :
              request.rpc.arguments.map[k].t = "absent" =>
                  (call.body.adapter.out = "none" <=> k \in Required(request.rpc.name))

\* C25 witness: get_gibs_image called without its optional width, the adapter
\* called with the default
C25_Witness ==
    /\ CallMade
    /\ request.rpc.name = "get_gibs_image"
    /\ ~request.rpc.arguments.isNone
    /\ request.rpc.arguments.map["width"].t = "absent"
    /\ request.rpc.arguments.map["height"] = PyBool(TRUE)
    /\ Len(call.body.adapter.requests) = 1
    /\ call.body.adapter.requests[1].params[3] = <<"WIDTH", "512">>

\* ------------------------------------------------------ adapter validations
\* the arguments of the call as the handler reads them
Arg(key) == IF request.rpc.arguments.isNone THEN None ELSE Get(request.rpc.arguments.map, key)
ArgDefault(key, default) ==
    IF request.rpc.arguments.isNone THEN default
    ELSE GetDefault(request.rpc.arguments.map, key, default)

\* the branch of a tool was taken and its adapter called
AdapterCalled(name) ==
    CallMade /\ call.body.branch = name /\ call.body.adapter.out # "none"

Requested == Len(call.body.adapter.requests) > 0

\* the adapter returned this error text and issued no request
Refused(message) ==
    /\ call.body.adapter.out = "return"
    /\ call.body.adapter.text = Error(<<message>>)
    /\ ~Requested
    /\ upstream = NoUpstream

\* a str that is a date in YYYY-MM-DD format; a str that is not
ValidDate(v) == v.t = "str" /\ v.s \in DOMAIN DayNumber
Malformed(v) == v.t = "str" /\ v.s # "" /\ v.s \notin DOMAIN DayNumber

\* C26: get_neo_feed issues an upstream request only when limit_per_day >= 1
\* and either no date is given, or start_date is a valid date and end_date is
\* not given or a valid date from start_date to start_date + 7 days; an
\* end_date without start_date, a span over 7 days, an end_date before
\* start_date and a malformed date are each refused with their own error text
\* and without an upstream request.
C26_NeoFeedValidates ==
    AdapterCalled("get_neo_feed") =>
        \E start \in {Arg("start_date")}, end \in {Arg("end_date")},
           limit \in {ArgDefault("limit_per_day", PyInt(2))} :
          /\ Requested =>
                /\ IsNumber(limit) /\ limit.i >= 1
                /\ \/ ~Truthy(start) /\ ~Truthy(end)
                   \/ /\ ValidDate(start)
                      /\ \/ ~Truthy(end)
                         \/ /\ ValidDate(end)
                            /\ DayNumber[start.s] <= DayNumber[end.s]
                            /\ DayNumber[end.s] <= DayNumber[start.s] + 7
          /\ (IsNumber(limit) /\ limit.i >= 1) =>
                /\ (~Truthy(start) /\ Truthy(end)) =>
                      Refused("start_date must provided to use the end_date")
                /\ Malformed(start) => Refused("start_date must be in YYYY-MM-DD format")
                /\ (ValidDate(start) /\ Malformed(end)) =>
                      Refused("end_date must be in YYYY-MM-DD format")
                /\ (ValidDate(start) /\ ValidDate(end)
                        /\ DayNumber[end.s] > DayNumber[start.s] + 7) =>
                      Refused("Date range cannot exceed 7 days")
                /\ (ValidDate(start) /\ ValidDate(end)
                        /\ DayNumber[end.s] < DayNumber[start.s]) =>
                      Refused("end_date must be after start_date")

\* C26 witness: a span of eight days was refused
C26_Witness ==
    /\ AdapterCalled("get_neo_feed")
    /\ Arg("start_date") = PyStr("2024-01-01")
    /\ Arg("end_date") = PyStr("2024-01-09")
    /\ Refused("Date range cannot exceed 7 days")

\* the query parameters of the upstream request of the call, by key
QueryKeys == {call.body.adapter.requests[1].params[k][1] :
                k \in DOMAIN call.body.adapter.requests[1].params}
QueryHas(key, value) ==
    \E k \in DOMAIN call.body.adapter.requests[1].params :
        call.body.adapter.requests[1].params[k] = <<key, value>>

\* C29: get_mars_image queries with exactly one time filter: sol when sol is
\* given (0 included; earth_date is then neither used nor validated, a
\* negative sol is refused), else earth_date when it is given and a valid
\* date, else sol=1000; the query never carries both.
C29_MarsOneTimeFilter ==
    AdapterCalled("get_mars_image") =>
        \E sol \in {Arg("sol")}, earth_date \in {Arg("earth_date")}, camera \in {Arg("camera")} :
          /\ Requested =>
                /\ ~({"sol", "earth_date"} \subseteq QueryKeys)
                /\ sol # None => IsNumber(sol) /\ sol.i >= 0 /\ QueryHas("sol", str(sol))
                /\ (sol = None /\ Truthy(earth_date)) =>
                      ValidDate(earth_date) /\ QueryHas("earth_date", earth_date.s)
                /\ (sol = None /\ ~Truthy(earth_date)) => QueryHas("sol", "1000")
          /\ (IsNumber(sol) /\ sol.i < 0) => Refused("sol must be a non-negative integer")
          /\ (IsNumber(sol) /\ sol.i >= 0 /\ ~Truthy(camera)) => Requested
          /\ (sol = None /\ Malformed(earth_date)) =>
                Refused("earth_date must be in YYYY-MM-DD format")

\* C29 witness: sol 0 given with a malformed earth_date, the query made by sol
C29_Witness ==
    /\ AdapterCalled("get_mars_image")
    /\ Arg("sol") = PyInt(0)
    /\ Arg("earth_date") = PyStr("tomorrow")
    /\ Requested
    /\ QueryHas("sol", "0")

\* the bounding box of the call, as the four floats the adapter compares
BoxOf(bbox) == [k \in 1..4 |-> FloatValue[split(bbox.s)[k]]]

\* four numeric parts, min below max on both axes, within the ranges
ValidBox(bbox) ==
    /\ bbox.t = "str"
    /\ Len(split(bbox.s)) = 4
    /\ \A k \in 1..4 : split(bbox.s)[k] \in DOMAIN FloatValue
    /\ \A k \in 1..4 : ~BoxOf(bbox)[k].nan
    /\ BoxOf(bbox)[1].x < BoxOf(bbox)[3].x
    /\ BoxOf(bbox)[2].x < BoxOf(bbox)[4].x
    /\ -180 <= BoxOf(bbox)[1].x /\ BoxOf(bbox)[3].x <= 180
    /\ -90 <= BoxOf(bbox)[2].x /\ BoxOf(bbox)[4].x <= 90

\* C27: get_gibs_image issues an upstream request only if every validation
\* passes: format is image/png or image/jpeg, the lowered projection is
\* epsg4326 or epsg3857, width and height are within 1..2048, bbox has four
\* numeric parts with min_lon < max_lon, min_lat < max_lat, longitudes within
\* [-180,180] and latitudes within [-90,90], and date is absent or a valid
\* date; a call violating a check issues no upstream request.
C27_GibsValidates ==
    (AdapterCalled("get_gibs_image") /\ Requested) =>
        /\ ArgDefault("format", PyStr("image/png")).t = "str"
        /\ ArgDefault("format", PyStr("image/png")).s \in valid_formats
        /\ ArgDefault("projection", PyStr("epsg4326")).t = "str"
        /\ lower(ArgDefault("projection", PyStr("epsg4326")).s) \in valid_projections
        /\ IsNumber(ArgDefault("width", PyInt(512)))
        /\ ArgDefault("width", PyInt(512)).i \in 1..2048
        /\ IsNumber(ArgDefault("height", PyInt(512)))
        /\ ArgDefault("height", PyInt(512)).i \in 1..2048
        /\ ValidBox(ArgDefault("bbox", PyStr("-180,-90,180,90")))
        /\ ~Truthy(Arg("date")) \/ ValidDate(Arg("date"))

\* the service answered the request of the call with a document
Answered ==
    Requested /\ upstream.net = "response" /\ upstream.status = 200 /\ upstream.payload = "ok"

Least(a, b, c) == CHOOSE m \in {a, b, c} : \A x \in {a, b, c} : m <= x

\* the names of the images a text of get_earth_image_definition lists, in order
Listed(text) ==
    [i \in 1..Cardinality({k \in DOMAIN text : text[k] = "  URL: "}) |->
        text[(CHOOSE k \in DOMAIN text :
                /\ text[k] = "  URL: "
                /\ Cardinality({j \in 1..k : text[j] = "  URL: "}) = i) + 1]]

\* C28: get_earth_image_tool refuses a limit below 1 with "Error: limit must
\* be at least 1" before any upstream request; otherwise the images reported
\* are the first min(limit, 10, number the upstream returned) of the upstream
\* list, in upstream order, the count reported is their number, and it is
\* never more than 10.
C28_EarthLimit ==
    AdapterCalled("get_earth_image_tool") =>
        \E limit \in {ArgDefault("limit", PyInt(1))} :
          /\ (IsNumber(limit) /\ limit.i < 1) => Refused("limit must be at least 1")
          /\ Answered =>
                \E n \in {Least(limit.i, 10, Len(upstream.data))},
                   text \in {call.body.adapter.text} :
                  /\ IsNumber(limit) /\ limit.i >= 1
                  /\ Listed(text) = SubSeq(upstream.data, 1, n)
                  /\ \E k \in DOMAIN text :
                        /\ text[k] = "Images returned: "
                        /\ text[k + 1] = ToString(n)
                        /\ text[k + 3] = ToString(Len(upstream.data))
                  /\ Len(Listed(text)) <= 10

\* C28 witness: limit 11 on a list of twelve images, ten of them reported
C28_Witness ==
    /\ AdapterCalled("get_earth_image_tool")
    /\ Arg("limit") = PyInt(11)
    /\ Answered
    /\ Len(upstream.data) = 12
    /\ Len(Listed(call.body.adapter.text)) = 10

\* C30: analyze_image_from_url chooses the output format from the original
\* image: an image served as image/png in mode RGBA is returned with
\* mime_type image/png, every other image with mime_type image/jpeg.
C30_FormatFromOriginal ==
    (AdapterCalled("get_image_analyze") /\ Answered) =>
        /\ Len(call.body.adapter.blocks) >= 1
        /\ call.body.adapter.blocks[1].type = "image"
        /\ call.body.adapter.blocks[1].mimeType =
              IF upstream.content_type = "image/png" /\ upstream.mode = "RGBA"
              THEN "image/png" ELSE "image/jpeg"

====
